---- MODULE Spec2Model ----
(***************************************************************************)
(* A model of itk::STLMeshIO (src/src/itkSTLMeshIO.cxx and                 *)
(* src/include/itkSTLMeshIO.h): the STL reader (format detection, ASCII    *)
(* and binary parsing, point insertion) and the STL writer.                *)
(*                                                                         *)
(* Files are sequences of bytes (0..255).  Text is written as the tuple of *)
(* its ASCII codes, with the text in a comment.  Coordinates are           *)
(* integer-valued floats, so that float arithmetic on them is exact; the   *)
(* sign of a zero is not modelled.                                         *)
(***************************************************************************)
EXTENDS Integers, Sequences, FiniteSets, TLC

(***************************************************************************)
(* Bounds of the model.                                                    *)
(***************************************************************************)
\* facet blocks in a generated ASCII file
MaxFacets == 2
\* declared triangles in a generated binary file
MaxTriangles == 2
\* cells in a cell buffer handed to WriteCells
MaxCells == 2
\* operations called on one object
MaxCalls == 2

(***************************************************************************)
(* Bytes and text.                                                         *)
(***************************************************************************)
\* '\n', the delimiter of every std::getline call
NL == 10
\* ' ', the fill character of the binary header and the separator on output
SP == 32
\* the characters std::isspace accepts in the "C" locale (skipped by >>)
WhiteSpace == {9, 10, 11, 12, 13, 32}

\* "solid"
Solid == <<115, 111, 108, 105, 100>>
\* "endsolid"
EndSolid == <<101, 110, 100, 115, 111, 108, 105, 100>>
\* "facet normal"
FacetNormal == <<102, 97, 99, 101, 116, 32, 110, 111, 114, 109, 97, 108>>
\* "outer loop"
OuterLoop == <<111, 117, 116, 101, 114, 32, 108, 111, 111, 112>>
\* "vertex"
Vertex == <<118, 101, 114, 116, 101, 120>>
\* "endloop"
EndLoop == <<101, 110, 100, 108, 111, 111, 112>>
\* "endfacet"
EndFacet == <<101, 110, 100, 102, 97, 99, 101, 116>>
\* "solid ascii"
SolidAscii == Solid \o <<32, 97, 115, 99, 105, 105>>
\* "binary STL generated from ITK"
BinaryHeaderText ==
  <<98, 105, 110, 97, 114, 121, 32, 83, 84, 76, 32, 103, 101, 110, 101,
    114, 97, 116, 101, 100, 32, 102, 114, 111, 109, 32, 73, 84, 75>>

\* std::string::find(sub) != npos
Contains(s, sub) ==
  \E i \in 1..(Len(s) - Len(sub) + 1) :
    \A k \in 1..Len(sub) : s[i + k - 1] = sub[k]

\* s without its first n elements
Drop(s, n) == SubSeq(s, n + 1, Len(s))

\* the first n elements of s (all of s when it is shorter)
Take(s, n) == SubSeq(s, 1, IF n < Len(s) THEN n ELSE Len(s))

\* n copies of b
Fill(n, b) == [i \in 1..n |-> b]

RECURSIVE Pow10(_)
Pow10(n) == IF n = 0 THEN 1 ELSE 10 * Pow10(n - 1)

RECURSIVE Pow2(_)
Pow2(n) == IF n = 0 THEN 1 ELSE 2 * Pow2(n - 1)

RECURSIVE Log2(_)
Log2(n) == IF n < 2 THEN 0 ELSE 1 + Log2(n \div 2)

Abs(v) == IF v < 0 THEN 0 - v ELSE v

\* the decimal digits of a natural number
RECURSIVE Digits(_)
Digits(n) == IF n < 10 THEN <<48 + n>> ELSE Digits(n \div 10) \o <<48 + (n % 10)>>

RECURSIVE StripZeros(_)
StripZeros(d) ==
  IF Len(d) > 0 /\ d[Len(d)] = 48 THEN StripZeros(SubSeq(d, 1, Len(d) - 1)) ELSE d

(***************************************************************************)
(* operator<<(std::ostream &, float) with the stream's default format      *)
(* (%g, precision 6) for an integer-valued float: plain digits below 10^6, *)
(* otherwise d.ddddde+XX with six significant digits, rounded half to      *)
(* even, trailing zeros removed.                                           *)
(***************************************************************************)
FormatFloat(v) ==
  LET a    == Abs(v)
      sign == IF v < 0 THEN <<45>> ELSE <<>>
      e    == Len(Digits(a)) - 1
  IN  IF a < 1000000
      THEN sign \o Digits(a)
      ELSE LET unit == Pow10(e - 5)
               q0   == a \div unit
               r    == a % unit
               up   == (2 * r > unit) \/ (2 * r = unit /\ q0 % 2 = 1)
               q1   == IF up THEN q0 + 1 ELSE q0
               q    == IF q1 = 1000000 THEN 100000 ELSE q1
               ex   == IF q1 = 1000000 THEN e + 1 ELSE e
               d    == Digits(q)
               frac == StripZeros(Drop(d, 1))
           IN  sign \o <<d[1]>>
                    \o (IF frac = <<>> THEN <<>> ELSE <<46>> \o frac)
                    \o <<101, 43>>
                    \o (IF ex < 10 THEN <<48>> ELSE <<>>) \o Digits(ex)

(***************************************************************************)
(* The object representation the binary helpers write and read             *)
(* (reinterpret_cast<const char *>(&value)), on a little-endian build.     *)
(***************************************************************************)
\* a float holding the integer v, |v| < 2^24: IEEE-754 single precision
FloatToBytes(v) ==
  IF v = 0 THEN <<0, 0, 0, 0>>
  ELSE LET a    == Abs(v)
           e    == Log2(a)
           mant == (a - Pow2(e)) * Pow2(23 - e)
           expo == e + 127
       IN  << mant % 256,
              (mant \div 256) % 256,
              (expo % 2) * 128 + (mant \div 65536),
              (IF v < 0 THEN 128 ELSE 0) + (expo \div 2) >>

\* an int32_t, 0 <= v < 2^31
Int32ToBytes(v) ==
  << v % 256, (v \div 256) % 256, (v \div 65536) % 256, v \div 16777216 >>

\* an int16_t, 0 <= v < 2^15
Int16ToBytes(v) == << v % 256, v \div 256 >>

\* the int32_t whose four bytes are b (two's complement)
BytesToInt32(b) ==
  b[1] + 256 * b[2] + 65536 * b[3]
       + 16777216 * (IF b[4] >= 128 THEN b[4] - 256 ELSE b[4])

\* a PointType / NormalType as the three floats Write*AsBinary emit
Float3ToBytes(p) == FloatToBytes(p[1]) \o FloatToBytes(p[2]) \o FloatToBytes(p[3])

(***************************************************************************)
(* The files ReadMeshInformation is pointed at.  A file is named by a      *)
(* record [kind, n, edit, at]; FileContent gives its bytes.                *)
(*   kind "ascii":  "solid cube", n facet blocks, "endsolid cube", every   *)
(*     line ended by '\n', then one edit: a blank line inserted before     *)
(*     line at (and, for "blankbad", the line after line at replaced by    *)
(*     "bad"), line at replaced by "bad" or by a vertex line with a        *)
(*     malformed number, line at dropped, the file cut in line at (the     *)
(*     lines before it, and that line without its '\n' when it is the      *)
(*     first), or the last '\n' left out;                                  *)
(*   kind "binary": an 80-byte header (spaces; with a '\n' in it; or       *)
(*     holding "solid"), the count n, n records, and the last at bytes     *)
(*     cut off;                                                            *)
(*   kind "missing": no such file.                                         *)
(***************************************************************************)
\* the i-th vertex of the generated meshes; distinct for distinct i
MeshPoint(i) == << i % 2, (i \div 2) % 2, i \div 4 >>

\* the j-th triangle: it shares two vertices with the (j-1)-th
MeshTriangle(j) == << MeshPoint(j), MeshPoint(j + 1), MeshPoint(j + 2) >>

\* "      vertex x y z"
VertexLine(p) ==
  Fill(6, SP) \o Vertex \o <<SP>> \o FormatFloat(p[1]) \o <<SP>>
              \o FormatFloat(p[2]) \o <<SP>> \o FormatFloat(p[3])

\* the seven lines of a facet block, as WriteCells lays them out
FacetLines(normal, t) ==
  << Fill(2, SP) \o FacetNormal \o <<SP>> \o FormatFloat(normal[1]) \o <<SP>>
                 \o FormatFloat(normal[2]) \o <<SP>> \o FormatFloat(normal[3]),
     Fill(4, SP) \o OuterLoop,
     VertexLine(t[1]),
     VertexLine(t[2]),
     VertexLine(t[3]),
     Fill(4, SP) \o EndLoop,
     Fill(2, SP) \o EndFacet >>

RECURSIVE FacetBlocks(_)
FacetBlocks(k) ==
  IF k = 0 THEN <<>>
  ELSE FacetBlocks(k - 1) \o FacetLines(<<0, 0, 1>>, MeshTriangle(k))

\* " cube"
CubeName == <<32, 99, 117, 98, 101>>
\* "bad"
BadLine == <<98, 97, 100>>
\* "      vertex q 0 0"
BadNumberLine == Fill(6, SP) \o Vertex \o <<32, 113, 32, 48, 32, 48>>

WellFormedLines(k) ==
  <<Solid \o CubeName>> \o FacetBlocks(k) \o <<EndSolid \o CubeName>>

EditLines(lines, edit, at) ==
  LET before == SubSeq(lines, 1, at - 1)
      from   == SubSeq(lines, at, Len(lines))
      after  == SubSeq(lines, at + 1, Len(lines))
  IN  CASE edit = "blank" -> before \o << <<>> >> \o from
        [] edit = "bad"   -> before \o <<BadLine>> \o after
        [] edit = "blankbad" ->
             before \o << <<>>, lines[at], BadLine >> \o SubSeq(after, 2, Len(after))
        [] edit = "nonum" -> before \o <<BadNumberLine>> \o after
        [] edit = "drop"  -> before \o after
        [] edit = "cut"   -> before
        [] OTHER          -> lines

RECURSIVE Unlines(_)
Unlines(lines) ==
  IF lines = <<>> THEN <<>>
  ELSE Head(lines) \o <<NL>> \o Unlines(Tail(lines))

AsciiFile(k, edit, at) ==
  LET bytes == Unlines(EditLines(WellFormedLines(k), edit, at))
  IN  IF edit = "noeol" THEN SubSeq(bytes, 1, Len(bytes) - 1)
      ELSE IF edit = "cut" /\ at = 1 THEN Solid \o CubeName
      ELSE bytes

\* the size of the opaque header of a binary STL file
HeaderSize == 80

BinaryHeader(edit) ==
  CASE edit = "newline" -> Fill(10, SP) \o <<NL>> \o Fill(HeaderSize - 11, SP)
    [] edit = "solid"   -> Solid \o Fill(HeaderSize - Len(Solid), SP)
    [] OTHER            -> Fill(HeaderSize - Len(BinaryHeaderText), SP)
                             \o BinaryHeaderText

\* normal, three vertices, attribute byte count: 50 bytes
BinaryRecord(normal, t) ==
  Float3ToBytes(normal) \o Float3ToBytes(t[1]) \o Float3ToBytes(t[2])
                        \o Float3ToBytes(t[3]) \o Int16ToBytes(0)

RECURSIVE BinaryRecords(_)
BinaryRecords(k) ==
  IF k = 0 THEN <<>>
  ELSE BinaryRecords(k - 1) \o BinaryRecord(<<0, 0, 1>>, MeshTriangle(k))

BinaryFile(k, edit, cut) ==
  LET bytes == BinaryHeader(edit) \o Int32ToBytes(k) \o BinaryRecords(k)
  IN  SubSeq(bytes, 1, Len(bytes) - cut)

FileContent(f) ==
  CASE f.kind = "ascii"  -> AsciiFile(f.n, f.edit, f.at)
    [] f.kind = "binary" -> BinaryFile(f.n, f.edit, f.at)
    [] OTHER             -> <<>>

FileExists(f) == f.kind # "missing"

\* the number of bytes cut off the end of a generated binary file
CutChoices == {0, 1, 60}

\* the lines of a file of k facet blocks that an edit is applied at: the
\* header line when there is no facet, else lines of the last facet block
\* (facet normal is line 7k - 5, endfacet line 7k + 1) and the endsolid line
EditLinesAt(edit, k) ==
  LET n == 7 * k + 2
  IN  CASE edit \in {"none", "noeol"} -> {n}
        [] edit = "bad"      -> IF k = 0 THEN {1, 2} ELSE (n - 7)..n
        [] edit = "cut"      -> IF k = 0 THEN {1, 2} ELSE {n - 7, n - 4, n}
        [] edit = "drop"     -> IF k = 0 THEN {2} ELSE {n - 6, n - 2, n}
        [] edit = "blank"    -> IF k = 0 THEN {2} ELSE {n - 7, n - 5, n}
        [] edit = "nonum"    -> IF k = 0 THEN {} ELSE {n - 5}
        [] edit = "blankbad" -> IF k = 0 THEN {} ELSE {n - 7}
        [] OTHER             -> {}

Edits == {"none", "noeol", "bad", "cut", "drop", "blank", "nonum", "blankbad"}

AsciiFileNames ==
  UNION { UNION { [kind : {"ascii"}, n : {k}, edit : {e}, at : EditLinesAt(e, k)]
                  : e \in Edits }
          : k \in 0..MaxFacets }

BinaryFileNames ==
  [kind : {"binary"}, n : 0..MaxTriangles, edit : {"plain", "newline"},
   at : CutChoices]
    \cup {[kind |-> "binary", n |-> 0, edit |-> "solid", at |-> 0]}

MissingFile == [kind |-> "missing", n |-> 0, edit |-> "none", at |-> 0]

FileNames == AsciiFileNames \cup BinaryFileNames \cup {MissingFile}

\* the bytes of each file
Files == [f \in FileNames |-> FileContent(f)]

(***************************************************************************)
(* The exception an operation ends with (itkExceptionMacro), or none.      *)
(* A parse error carries the keyword missed, m_InputLineNumber and, when   *)
(* the message has a "found:" part, the text of m_InputLine.               *)
(***************************************************************************)
NoException ==
  [kind |-> "none", missed |-> <<>>, line |-> 0, hasText |-> FALSE, text |-> <<>>]

OpenError ==
  [kind |-> "open", missed |-> <<>>, line |-> 0, hasText |-> FALSE, text |-> <<>>]

DimensionError ==
  [kind |-> "dimension", missed |-> <<>>, line |-> 0, hasText |-> FALSE,
   text |-> <<>>]

ComponentTypeError ==
  [kind |-> "componenttype", missed |-> <<>>, line |-> 0, hasText |-> FALSE,
   text |-> <<>>]

ParseError(missed, line, hasText, text) ==
  [kind |-> "parse", missed |-> missed, line |-> line, hasText |-> hasText,
   text |-> text]

(***************************************************************************)
(* std::istream on the bytes c.  pos is the number of bytes consumed; good *)
(* is stream.good().  An input function on a stream that is not good does  *)
(* nothing and leaves its target unchanged.                                *)
(***************************************************************************)
\* the index of the first '\n' of c at or after index i, or 0
FindNL(c, i) ==
  LET found == {j \in i..Len(c) : c[j] = NL}
  IN  IF found = {} THEN 0
      ELSE CHOOSE j \in found : \A k \in found : j <= k

\* std::getline(stream, str, '\n')
GetLine(c, pos, good, str) ==
  IF ~good THEN [str |-> str, pos |-> pos, good |-> FALSE]
  ELSE LET j == FindNL(c, pos + 1)
       IN  IF j = 0
           THEN [str |-> Drop(c, pos), pos |-> Len(c), good |-> FALSE]
           ELSE [str |-> SubSeq(c, pos + 1, j - 1), pos |-> j, good |-> TRUE]

RECURSIVE SkipWhiteSpace(_, _)
SkipWhiteSpace(c, pos) ==
  IF pos < Len(c) /\ c[pos + 1] \in WhiteSpace
  THEN SkipWhiteSpace(c, pos + 1) ELSE pos

RECURSIVE WordEnd(_, _)
WordEnd(c, pos) ==
  IF pos < Len(c) /\ c[pos + 1] \notin WhiteSpace THEN WordEnd(c, pos + 1) ELSE pos

RECURSIVE DigitsEnd(_, _)
DigitsEnd(c, pos) ==
  IF pos < Len(c) /\ c[pos + 1] \in 48..57 THEN DigitsEnd(c, pos + 1) ELSE pos

RECURSIVE DigitsValue(_)
DigitsValue(d) ==
  IF d = <<>> THEN 0
  ELSE 10 * DigitsValue(SubSeq(d, 1, Len(d) - 1)) + (d[Len(d)] - 48)

\* stream >> std::string: skip white space, take the characters up to the next
\* white space; str is a fresh (empty) string
ReadWord(c, pos, good) ==
  IF ~good THEN [str |-> <<>>, pos |-> pos, good |-> FALSE]
  ELSE LET s == SkipWhiteSpace(c, pos)
       IN  IF s = Len(c)
           THEN [str |-> <<>>, pos |-> s, good |-> FALSE]
           ELSE LET e == WordEnd(c, s)
                IN  [str |-> SubSeq(c, s + 1, e), pos |-> e, good |-> e < Len(c)]

(***************************************************************************)
(* stream >> float, for [sign] digits [. digits] [e [sign] digits] holding *)
(* an integer value.  old is the value of the target before the call: a    *)
(* stream that is not good leaves it, a failed conversion stores 0 and     *)
(* sets failbit, and a number that runs to the end of the file sets        *)
(* eofbit.  The scan is split in stages; each takes the positions the      *)
(* stages before it found: the digits of the integer part are c[d0+1..d1], *)
(* those of the fraction c[f0+1..f1], those of the exponent c[x1+1..x2].   *)
(***************************************************************************)
FloatValue(c, neg, d0, d1, f0, f1, xNeg, x1, x2) ==
  LET mant  == DigitsValue(SubSeq(c, d0 + 1, d1)) * Pow10(f1 - f0)
                 + DigitsValue(SubSeq(c, f0 + 1, f1))
      ex    == DigitsValue(SubSeq(c, x1 + 1, x2))
      shift == (IF xNeg THEN 0 - ex ELSE ex) - (f1 - f0)
      mag   == IF shift >= 0 THEN mant * Pow10(shift)
               ELSE mant \div Pow10(0 - shift)
  IN  [val |-> IF neg THEN 0 - mag ELSE mag, pos |-> x2, good |-> x2 < Len(c)]

ScanExponentDigits(c, neg, d0, d1, f0, f1, xNeg, x1, x2) ==
  IF x2 > x1
  THEN FloatValue(c, neg, d0, d1, f0, f1, xNeg, x1, x2)
  ELSE FloatValue(c, neg, d0, d1, f0, f1, FALSE, f1, f1)

ScanExponentSign(c, neg, d0, d1, f0, f1, x1) ==
  ScanExponentDigits(c, neg, d0, d1, f0, f1,
                     f1 + 1 < Len(c) /\ c[f1 + 2] = 45, x1, DigitsEnd(c, x1))

ScanExponent(c, neg, d0, d1, f0, f1) ==
  IF (d1 - d0) + (f1 - f0) = 0
  THEN [val |-> 0, pos |-> d0, good |-> FALSE]
  ELSE IF f1 < Len(c) /\ c[f1 + 1] \in {69, 101}
  THEN ScanExponentSign(c, neg, d0, d1, f0, f1,
         IF f1 + 1 < Len(c) /\ c[f1 + 2] \in {43, 45} THEN f1 + 2 ELSE f1 + 1)
  ELSE FloatValue(c, neg, d0, d1, f0, f1, FALSE, f1, f1)

ScanFraction(c, neg, d0, d1) ==
  IF d1 < Len(c) /\ c[d1 + 1] = 46
  THEN ScanExponent(c, neg, d0, d1, d1 + 1, DigitsEnd(c, d1 + 1))
  ELSE ScanExponent(c, neg, d0, d1, d1, d1)

ScanFloat(c, s, old) ==
  IF s = Len(c) THEN [val |-> old, pos |-> s, good |-> FALSE]
  ELSE ScanFraction(c, c[s + 1] = 45,
                    IF c[s + 1] \in {43, 45} THEN s + 1 ELSE s,
                    DigitsEnd(c, IF c[s + 1] \in {43, 45} THEN s + 1 ELSE s))

ReadFloat(c, pos, good, old) ==
  IF ~good THEN [val |-> old, pos |-> pos, good |-> FALSE]
  ELSE ScanFloat(c, SkipWhiteSpace(c, pos), old)

\* stream.read(buffer, n): the bytes read; a short read sets eofbit and failbit
ReadBytes(c, pos, good, n) ==
  IF ~good THEN [bytes |-> <<>>, pos |-> pos, good |-> FALSE]
  ELSE IF Len(c) - pos >= n
  THEN [bytes |-> SubSeq(c, pos + 1, pos + n), pos |-> pos + n, good |-> TRUE]
  ELSE [bytes |-> Drop(c, pos), pos |-> Len(c), good |-> FALSE]

(***************************************************************************)
(* The ASCII reader.  Its state r is the part of the object the parser     *)
(* works on: the stream (pos, good), m_InputLine (line), m_InputLineNumber *)
(* (lineNo), m_PointsSet (points), the locals p0, p1, p2 of                *)
(* ReadMeshInternalFromAscii (p) and the exception thrown so far (exc).    *)
(* A step after an exception is skipped: the exception has left the        *)
(* function.                                                               *)
(***************************************************************************)
Thrown(r) == r.exc.kind # "none"

\* PointCompare::operator(): lexicographic order on (x, y, z)
PointCompare(p1, p2) ==
  IF p1[1] # p2[1] THEN p1[1] < p2[1]
  ELSE IF p1[2] # p2[2] THEN p1[2] < p2[2]
  ELSE p1[3] < p2[3]

\* m_PointsSet.insert(point): the set keeps one point of each class of points
\* that the order does not tell apart
InsertPointIntoSet(points, point) ==
  IF \E q \in points : ~PointCompare(point, q) /\ ~PointCompare(q, point)
  THEN points
  ELSE points \cup {point}

ReadStringFromAscii(c, r, expected) ==
  IF Thrown(r) THEN r
  ELSE
    LET g == IF r.line = <<>>
             THEN GetLine(c, r.pos, r.good, r.line)
             ELSE [str |-> r.line, pos |-> r.pos, good |-> r.good]
    IN  IF ~Contains(g.str, expected)
        THEN [r EXCEPT !.line = g.str, !.pos = g.pos, !.good = g.good,
                       !.exc = ParseError(expected, r.lineNo, TRUE, g.str)]
        ELSE [r EXCEPT !.line = <<>>, !.pos = g.pos, !.good = g.good,
                       !.lineNo = r.lineNo + 1]

CheckStringFromAscii(c, r, expected) ==
  LET g == GetLine(c, r.pos, r.good, r.line)
      found == Contains(g.str, expected)
  IN  [found |-> found,
       r |-> [r EXCEPT !.line = g.str, !.pos = g.pos, !.good = g.good,
                       !.lineNo = IF found THEN r.lineNo + 1 ELSE r.lineNo]]

\* ReadPointAsAscii(p_i), i in 1..3, in stages: the keyword w, then the
\* coordinates x, y, z (operator>> of itk::Point reads them one by one), then
\* the insertion and the rest of the line
ReadPointRest(c, r, i, x, y, z) ==
  LET rest == GetLine(c, z.pos, z.good, <<>>)
  IN  [r EXCEPT !.pos = rest.pos, !.good = rest.good,
                !.p[i] = <<x.val, y.val, z.val>>,
                !.points = InsertPointIntoSet(r.points, <<x.val, y.val, z.val>>),
                !.lineNo = r.lineNo + 1]

ReadPointZ(c, r, i, x, y) ==
  ReadPointRest(c, r, i, x, y, ReadFloat(c, y.pos, y.good, r.p[i][3]))

ReadPointY(c, r, i, x) ==
  ReadPointZ(c, r, i, x, ReadFloat(c, x.pos, x.good, r.p[i][2]))

ReadPointKeyword(c, r, i, w) ==
  IF ~Contains(w.str, Vertex)
  THEN [r EXCEPT !.pos = w.pos, !.good = w.good,
                 !.exc = ParseError(Vertex, r.lineNo, FALSE, <<>>)]
  ELSE ReadPointY(c, r, i, ReadFloat(c, w.pos, w.good, r.p[i][1]))

ReadPointAsAscii(c, r, i) ==
  IF Thrown(r) THEN r
  ELSE ReadPointKeyword(c, r, i, ReadWord(c, r.pos, r.good))

\* the body of the while loop of ReadMeshInternalFromAscii
ReadFacet(c, r) ==
  ReadStringFromAscii(c,
    ReadStringFromAscii(c,
      ReadPointAsAscii(c,
        ReadPointAsAscii(c,
          ReadPointAsAscii(c,
            ReadStringFromAscii(c,
              ReadStringFromAscii(c, r, FacetNormal),
              OuterLoop),
            1),
          2),
        3),
      EndLoop),
    EndFacet)

RECURSIVE ReadFacets(_, _)
ReadFacets(c, r) ==
  LET chk == CheckStringFromAscii(c, r, EndSolid)
  IN  IF chk.found THEN chk.r
      ELSE LET r7 == ReadFacet(c, chk.r)
           IN  IF Thrown(r7) THEN r7 ELSE ReadFacets(c, r7)

ReadMeshInternalFromAscii(c, r) == ReadFacets(c, [r EXCEPT !.lineNo = 2])

(***************************************************************************)
(* The binary reader.  st is the stream (pos, good); the values read into  *)
(* normal, p0, p1, p2 and bytecount are never used, so only the stream     *)
(* moves.  u is the content of the uninitialised local numberOfTriangles:  *)
(* a short read leaves the bytes it did not reach as they were.            *)
(***************************************************************************)
ReadRaw(c, st, n) ==
  LET b == ReadBytes(c, st.pos, st.good, n)
  IN  [pos |-> b.pos, good |-> b.good]

ReadNormalAsBinary(c, st) == ReadRaw(c, ReadRaw(c, ReadRaw(c, st, 4), 4), 4)

ReadPointAsBinary(c, st) == ReadRaw(c, ReadRaw(c, ReadRaw(c, st, 4), 4), 4)

ReadInt16AsBinary(c, st) == ReadRaw(c, st, 2)

ReadTriangle(c, st) ==
  ReadInt16AsBinary(c,
    ReadPointAsBinary(c,
      ReadPointAsBinary(c, ReadPointAsBinary(c, ReadNormalAsBinary(c, st)))))

\* while(numberOfTriangles--): once the stream is not good the remaining
\* rounds change nothing, so they are not unrolled.  A negative count never
\* reaches zero before the stream is exhausted; the rounds after that
\* decrement it past the least int32_t, and only the state they leave when
\* the decrement wraps (the stream as the last read left it) is modelled.
RECURSIVE ReadTriangles(_, _, _)
ReadTriangles(c, st, n) ==
  IF n = 0 \/ ~st.good THEN st
  ELSE ReadTriangles(c, ReadTriangle(c, st), IF n > 0 THEN n - 1 ELSE n)

ReadMeshInternalFromBinary(c, st, u) ==
  LET header == ReadBytes(c, st.pos, st.good, HeaderSize)
      count  == ReadBytes(c, header.pos, header.good, 4)
      numberOfTriangles ==
        BytesToInt32(count.bytes \o Drop(Int32ToBytes(u), Len(count.bytes)))
      end == ReadTriangles(c, [pos |-> count.pos, good |-> count.good],
                           numberOfTriangles)
  IN  [pos |-> end.pos, good |-> end.good, cells |-> numberOfTriangles]

(***************************************************************************)
(* The state of one STLMeshIO object and of its caller.                    *)
(***************************************************************************)
VARIABLES
  win32,                \* whether the build defines _WIN32
  fileName,             \* m_FileName: the file the object is pointed at
  m_FileType,           \* "ASCII" or "BINARY"
  m_NumberOfCells,      \* as the int32_t it was set from
  lastCall,             \* the last operation called and how it ended
  calls,                \* the number of operations called so far
  m_InputStream,        \* [open, pos, good]
  m_InputLine,
  m_InputLineNumber,
  m_PointsSet,
  m_PointsMap,          \* PointType -> IdentifierType
  m_CellsVector,        \* sequence of TripletType
  m_OutputStream,       \* [open, good]
  output,               \* the bytes the output stream has taken for its file
  m_Points,
  m_PointDimension,
  m_PointComponentType,
  m_NumberOfPoints,
  pointsBuffer,         \* the caller's point coordinates
  cellsBuffer,          \* the caller's cells: type, count, indices, ...
  writeStage            \* the caller's place in its write sequence: "idle",
                        \* "ready", "information", "points" or "cells"

sharedVars ==
  <<win32, fileName, m_FileType, m_NumberOfCells, lastCall, calls>>

readerVars ==
  <<m_InputStream, m_InputLine, m_InputLineNumber, m_PointsSet, m_PointsMap,
    m_CellsVector>>

writerVars ==
  <<m_OutputStream, output, m_Points, m_PointDimension, m_PointComponentType,
    m_NumberOfPoints, pointsBuffer, cellsBuffer, writeStage>>

vars == <<sharedVars, readerVars, writerVars>>

FileTypes == {"ASCII", "BINARY"}

\* what uninitialised memory may hold when it is read (an int32_t or a float)
UninitValues == {0, 3}

\* a stream that is not open; its position and flags are not observed before
\* the next successful open resets them
ClosedStream == [open |-> FALSE, pos |-> 0, good |-> FALSE]

\* the output stream when it is not open; its flags are not observed before
\* the next successful open resets them
ClosedOutput == [open |-> FALSE, good |-> FALSE]

Call(op, exc, parser) == [op |-> op, exc |-> exc, parser |-> parser]

(***************************************************************************)
(* The object after construction: MeshIOBase starts with file type ASCII,  *)
(* no file name and zero cells and points; the streams are closed and the  *)
(* containers empty.  m_InputLineNumber is not initialised and is written  *)
(* before it is first read; 0 stands for that content.                     *)
(***************************************************************************)
Init ==
  /\ win32 \in BOOLEAN
  /\ fileName = MissingFile
  /\ m_FileType = "ASCII"
  /\ m_NumberOfCells = 0
  /\ lastCall = Call("STLMeshIO", NoException, "none")
  /\ calls = 0
  /\ m_InputStream = ClosedStream
  /\ m_InputLine = <<>>
  /\ m_InputLineNumber = 0
  /\ m_PointsSet = {}
  /\ m_PointsMap = [p \in {} |-> 0]
  /\ m_CellsVector = <<>>
  /\ m_OutputStream = ClosedOutput
  /\ output = <<>>
  /\ m_Points = <<>>
  /\ m_PointDimension = 3
  /\ m_PointComponentType = "FLOAT"
  /\ m_NumberOfPoints = 0
  /\ pointsBuffer = <<>>
  /\ cellsBuffer = <<>>
  /\ writeStage = "idle"

(***************************************************************************)
(* The caller's setting of the file type (MeshIOBase::SetFileType).        *)
(***************************************************************************)
SetFileType ==
  \E t \in FileTypes :
    /\ writeStage = "idle"
    /\ m_FileType' = t
    /\ lastCall' = Call("SetFileType", NoException, "none")
    /\ UNCHANGED <<win32, fileName, m_NumberOfCells, calls>>
    /\ UNCHANGED <<readerVars, writerVars>>

(***************************************************************************)
(* Reading.                                                                *)
(***************************************************************************)
\* m_InputStream.open(m_FileName): fails on a stream that is already open
\* (failbit, the stream stays as it is) and on a missing file; a successful
\* open clears the flags
OpenInput(stream, f) ==
  IF stream.open THEN [stream EXCEPT !.good = FALSE]
  ELSE IF FileExists(f) THEN [open |-> TRUE, pos |-> 0, good |-> TRUE]
  ELSE ClosedStream

\* the test of the header line
IsAsciiHeader(inputLine) == Contains(inputLine, Solid)

\* ReadMeshInformation on an object pointed at the file f, whose bytes are
\* c; u is what uninitialised locals hold.
ReadMeshInformationOf(f, c, u) ==
    LET s0     == OpenInput(m_InputStream, f)
        first  == GetLine(c, s0.pos, s0.good, <<>>)
        type   == IF IsAsciiHeader(first.str) THEN "ASCII" ELSE "BINARY"
        reopen == win32 /\ m_FileType # type
        s1     == IF reopen THEN OpenInput(ClosedStream, f)
                  ELSE [s0 EXCEPT !.pos = first.pos, !.good = first.good]
    IN  /\ calls < MaxCalls
        /\ calls' = calls + 1
        /\ fileName' = f
        /\ UNCHANGED <<win32, m_PointsMap, m_CellsVector, writerVars>>
        /\ IF ~s0.open
           THEN /\ m_InputStream' = s0
                /\ lastCall' = Call("ReadMeshInformation", OpenError, "none")
                /\ UNCHANGED <<m_FileType, m_NumberOfCells, m_InputLine,
                               m_InputLineNumber, m_PointsSet>>
           ELSE IF ~s1.open
           THEN /\ m_InputStream' = s1
                /\ m_FileType' = type
                /\ lastCall' = Call("ReadMeshInformation", OpenError, "none")
                /\ UNCHANGED <<m_NumberOfCells, m_InputLine, m_InputLineNumber,
                               m_PointsSet>>
           ELSE IF type = "ASCII"
           THEN \E r \in {ReadMeshInternalFromAscii(c,
                            [pos |-> s1.pos, good |-> s1.good,
                             line |-> m_InputLine,
                             lineNo |-> m_InputLineNumber,
                             points |-> m_PointsSet,
                             p |-> <<<<u, u, u>>, <<u, u, u>>, <<u, u, u>>>>,
                             exc |-> NoException])} :
                  /\ m_FileType' = type
                  /\ m_InputLine' = r.line
                  /\ m_InputLineNumber' = r.lineNo
                  /\ m_PointsSet' = r.points
                  /\ m_InputStream' =
                       IF Thrown(r)
                       THEN [open |-> TRUE, pos |-> r.pos, good |-> r.good]
                       ELSE ClosedStream
                  /\ lastCall' = Call("ReadMeshInformation", r.exc, "ascii")
                  /\ UNCHANGED m_NumberOfCells
           ELSE \E b \in {ReadMeshInternalFromBinary(c, s1, u)} :
                  /\ m_FileType' = type
                  /\ m_NumberOfCells' = b.cells
                  /\ m_InputStream' = ClosedStream
                  /\ lastCall' = Call("ReadMeshInformation", NoException, "binary")
                  /\ UNCHANGED <<m_InputLine, m_InputLineNumber, m_PointsSet>>

\* The caller points the object at one of the files (SetFileName) and calls
\* ReadMeshInformation.
ReadMeshInformation ==
  \E f \in FileNames, u \in UninitValues :
  \E c \in {Files[f]} :
    ReadMeshInformationOf(f, c, u)

\* ReadPoints and ReadCells open the file and close it again
ReadPoints ==
  LET s0 == OpenInput(m_InputStream, fileName)
  IN  /\ calls < MaxCalls
      /\ calls' = calls + 1
      /\ m_InputStream' = ClosedStream
      /\ lastCall' = Call("ReadPoints",
                          IF s0.open THEN NoException ELSE OpenError, "none")
      /\ UNCHANGED <<win32, fileName, m_FileType, m_NumberOfCells>>
      /\ UNCHANGED <<m_InputLine, m_InputLineNumber, m_PointsSet, m_PointsMap,
                     m_CellsVector, writerVars>>

ReadCells ==
  LET s0 == OpenInput(m_InputStream, fileName)
  IN  /\ calls < MaxCalls
      /\ calls' = calls + 1
      /\ m_InputStream' = ClosedStream
      /\ lastCall' = Call("ReadCells",
                          IF s0.open THEN NoException ELSE OpenError, "none")
      /\ UNCHANGED <<win32, fileName, m_FileType, m_NumberOfCells>>
      /\ UNCHANGED <<m_InputLine, m_InputLineNumber, m_PointsSet, m_PointsMap,
                     m_CellsVector, writerVars>>

NextRead ==
  \/ SetFileType
  \/ ReadMeshInformation
  \/ ReadPoints
  \/ ReadCells

SpecRead == Init /\ [][NextRead]_vars

(***************************************************************************)
(* Writing.  The caller (itk::MeshFileWriter) points the object at a new   *)
(* file, records the mesh in it, and calls WriteMeshInformation,           *)
(* WritePoints, WriteCells and Write in this order; an exception ends the  *)
(* sequence.  output is the content of the file m_FileName names.          *)
(***************************************************************************)
TRIANGLE_CELL == 2
POLYGON_CELL == 4

\* the point component types that WritePoints has a case for
ComponentTypes ==
  {"UCHAR", "CHAR", "USHORT", "SHORT", "UINT", "INT", "ULONG", "LONG",
   "ULONGLONG", "LONGLONG", "FLOAT", "DOUBLE", "LDOUBLE"}

\* the points of the meshes handed to the writer, and their number
MeshPoints == [i \in 1..4 |-> MeshPoint(i - 1)]

\* the cells a mesh is made of: a triangle, a polygon of three vertices, a
\* polygon of four and a quadrilateral
CellChoices ==
  { [type |-> TRIANGLE_CELL, ids |-> <<0, 1, 2>>],
    [type |-> POLYGON_CELL, ids |-> <<1, 3, 2>>],
    [type |-> POLYGON_CELL, ids |-> <<0, 1, 3, 2>>],
    [type |-> 3, ids |-> <<0, 1, 3, 2>>] }

CellLists == UNION { [1..n -> CellChoices] : n \in 0..MaxCells }

\* the cells buffer of MeshIOBase: type, number of vertices, point ids, ...
RECURSIVE CellsToBuffer(_)
CellsToBuffer(cells) ==
  IF cells = <<>> THEN <<>>
  ELSE <<Head(cells).type, Len(Head(cells).ids)>> \o Head(cells).ids
         \o CellsToBuffer(Tail(cells))

\* the points buffer: dimension coordinates for each point
RECURSIVE PointsToBuffer(_, _)
PointsToBuffer(points, dimension) ==
  IF points = <<>> THEN <<>>
  ELSE SubSeq(Head(points), 1, dimension) \o PointsToBuffer(Tail(points), dimension)

SetMesh ==
  \E cells \in CellLists, dimension \in {2, 3},
     componentType \in {"FLOAT", "UNKNOWNCOMPONENTTYPE"} :
    /\ writeStage = "idle"
    /\ writeStage' = "ready"
    /\ output' = <<>>
    /\ m_PointDimension' = dimension
    /\ m_PointComponentType' = componentType
    /\ m_NumberOfPoints' = Len(MeshPoints)
    /\ m_NumberOfCells' = Len(cells)
    /\ pointsBuffer' = PointsToBuffer(MeshPoints, dimension)
    /\ cellsBuffer' = CellsToBuffer(cells)
    /\ lastCall' = Call("SetMesh", NoException, "none")
    /\ UNCHANGED <<win32, fileName, m_FileType, calls, readerVars,
                   m_OutputStream, m_Points>>

\* m_OutputStream.open(m_FileName): fails on a stream that is already open
\* (failbit, the stream stays as it is) and when the file cannot be created
OpenOutput(stream, canCreate) ==
  IF stream.open THEN [stream EXCEPT !.good = FALSE]
  ELSE IF canCreate THEN [open |-> TRUE, good |-> TRUE]
  ELSE ClosedOutput

\* an output function: the stream takes the bytes when it is good
Put(stream, out, bytes) ==
  IF stream.open /\ stream.good THEN out \o bytes ELSE out

\* std::setfill(fill) << std::setw(width) << text
SetW(width, fill, text) ==
  IF Len(text) >= width THEN text ELSE Fill(width - Len(text), fill) \o text

WriteMeshInformation ==
  \E canCreate \in BOOLEAN :
    LET s0 == OpenOutput(m_OutputStream, canCreate)
    IN  /\ writeStage = "ready"
        /\ m_OutputStream' = s0
        /\ IF ~s0.open
           THEN /\ lastCall' = Call("WriteMeshInformation", OpenError, "none")
                /\ writeStage' = "idle"
                /\ UNCHANGED output
           ELSE /\ lastCall' = Call("WriteMeshInformation", NoException, "none")
                /\ writeStage' = "information"
                /\ output' =
                     IF m_FileType = "ASCII"
                     THEN Put(s0, output, SolidAscii \o <<NL>>)
                     ELSE Put(s0, output, SetW(HeaderSize, SP, BinaryHeaderText))
        /\ UNCHANGED <<win32, fileName, m_FileType, m_NumberOfCells, calls,
                       readerVars, m_Points, m_PointDimension,
                       m_PointComponentType, m_NumberOfPoints, pointsBuffer,
                       cellsBuffer>>

\* the copy loop of WritePointsTyped: m_Points[pi][i] for pi < numberOfPoints,
\* i < pointDimension, read off the buffer in order
WritePointsTyped(buffer, numberOfPoints, pointDimension) ==
  [pi \in 1..numberOfPoints |->
     [i \in 1..pointDimension |-> buffer[(pi - 1) * pointDimension + i]]]

WritePoints ==
  /\ writeStage = "information"
  /\ IF m_PointComponentType \notin ComponentTypes
     THEN /\ lastCall' = Call("WritePoints", ComponentTypeError, "none")
          /\ writeStage' = "idle"
          /\ UNCHANGED m_Points
     ELSE IF m_PointDimension # 3
     THEN /\ lastCall' = Call("WritePoints", DimensionError, "none")
          /\ writeStage' = "idle"
          /\ UNCHANGED m_Points
     ELSE /\ lastCall' = Call("WritePoints", NoException, "none")
          /\ writeStage' = "points"
          /\ m_Points' = WritePointsTyped(pointsBuffer, m_NumberOfPoints,
                                          m_PointDimension)
  /\ UNCHANGED <<win32, fileName, m_FileType, m_NumberOfCells, calls,
                 readerVars, m_OutputStream, output, m_PointDimension,
                 m_PointComponentType, m_NumberOfPoints, pointsBuffer,
                 cellsBuffer>>

\* a test that takes only cells tagged as triangles
IsTriangleCellOnly(cellType, numberOfVerticesInCell) ==
  cellType = TRIANGLE_CELL

\* the test of both passes of WriteCells
IsTriangle(cellType, numberOfVerticesInCell) ==
  \/ cellType = TRIANGLE_CELL
  \/ (cellType = POLYGON_CELL /\ numberOfVerticesInCell = 3)

\* the first loop of WriteCells (BINARY): index2 walks the buffer, which the
\* model indexes from 1, and numberOfTriangles counts
RECURSIVE CountTriangles(_, _, _, _, _)
CountTriangles(buffer, index2, polygonItr, numberOfPolygons, numberOfTriangles) ==
  IF polygonItr >= numberOfPolygons THEN numberOfTriangles
  ELSE CountTriangles(buffer, index2 + 2 + buffer[index2 + 2], polygonItr + 1,
                      numberOfPolygons,
                      IF IsTriangle(buffer[index2 + 1], buffer[index2 + 2])
                      THEN numberOfTriangles + 1 ELSE numberOfTriangles)

WriteInt32AsBinary(stream, out, value) == Put(stream, out, Int32ToBytes(value))

WriteInt16AsBinary(stream, out, value) == Put(stream, out, Int16ToBytes(value))

WriteNormalAsBinary(stream, out, normal) == Put(stream, out, Float3ToBytes(normal))

WritePointAsBinary(stream, out, point) == Put(stream, out, Float3ToBytes(point))

\* a - b, for points or vectors
Minus(a, b) == << a[1] - b[1], a[2] - b[2], a[3] - b[3] >>

\* CrossProduct(normal, a, b): normal = a x b
CrossProduct(a, b) ==
  << a[2] * b[3] - a[3] * b[2], a[3] * b[1] - a[1] * b[3], a[1] * b[2] - a[2] * b[1] >>

\* what WriteCells writes for one triangle
WriteTriangle(stream, out, fileType, p0, p1, p2) ==
  IF fileType = "ASCII"
  THEN Put(stream, out,
           Unlines(FacetLines(CrossProduct(Minus(p2, p1), Minus(p0, p1)),
                              <<p0, p1, p2>>)))
  ELSE WriteInt16AsBinary(stream,
         WritePointAsBinary(stream,
           WritePointAsBinary(stream,
             WritePointAsBinary(stream,
               WriteNormalAsBinary(stream, out,
                 CrossProduct(Minus(p2, p1), Minus(p0, p1))),
               p0),
             p1),
           p2),
         0)

\* the second loop of WriteCells
RECURSIVE WriteTriangles(_, _, _, _, _, _, _, _)
WriteTriangles(buffer, points, fileType, stream, out, index, polygonItr, numberOfPolygons) ==
  IF polygonItr >= numberOfPolygons THEN out
  ELSE IF IsTriangle(buffer[index + 1], buffer[index + 2])
  THEN WriteTriangles(buffer, points, fileType, stream,
                      WriteTriangle(stream, out, fileType,
                                    points[buffer[index + 3] + 1],
                                    points[buffer[index + 4] + 1],
                                    points[buffer[index + 5] + 1]),
                      index + 5, polygonItr + 1, numberOfPolygons)
  ELSE WriteTriangles(buffer, points, fileType, stream, out,
                      index + 2 + buffer[index + 2], polygonItr + 1,
                      numberOfPolygons)

WriteCells ==
  /\ writeStage = "points"
  /\ writeStage' = "cells"
  /\ lastCall' = Call("WriteCells", NoException, "none")
  /\ output' =
       IF m_FileType = "BINARY"
       THEN WriteTriangles(cellsBuffer, m_Points, m_FileType, m_OutputStream,
              WriteInt32AsBinary(m_OutputStream, output,
                CountTriangles(cellsBuffer, 0, 0, m_NumberOfCells, 0)),
              0, 0, m_NumberOfCells)
       ELSE Put(m_OutputStream,
                WriteTriangles(cellsBuffer, m_Points, m_FileType, m_OutputStream,
                               output, 0, 0, m_NumberOfCells),
                EndSolid \o <<NL>>)
  /\ UNCHANGED <<win32, fileName, m_FileType, m_NumberOfCells, calls,
                 readerVars, m_OutputStream, m_Points, m_PointDimension,
                 m_PointComponentType, m_NumberOfPoints, pointsBuffer,
                 cellsBuffer>>

\* Write closes the output stream
Write ==
  /\ writeStage = "cells"
  /\ writeStage' = "idle"
  /\ m_OutputStream' = ClosedOutput
  /\ lastCall' = Call("Write", NoException, "none")
  /\ UNCHANGED <<win32, fileName, m_FileType, m_NumberOfCells, calls,
                 readerVars, output, m_Points, m_PointDimension,
                 m_PointComponentType, m_NumberOfPoints, pointsBuffer,
                 cellsBuffer>>

NextWrite ==
  \/ SetFileType
  \/ SetMesh
  \/ WriteMeshInformation
  \/ WritePoints
  \/ WriteCells
  \/ Write

SpecWrite == Init /\ [][NextWrite]_vars

(***************************************************************************)
(* Writing a file and reading it back.  When Write has ended a write       *)
(* sequence that has left a file, the caller points the object at that     *)
(* file and calls ReadMeshInformation.                                     *)
(***************************************************************************)
\* the name of the file the writer was pointed at
WrittenFile == [kind |-> "written", n |-> 0, edit |-> "none", at |-> 0]

ReadBack ==
  \E u \in UninitValues :
  \E c \in {output} :
    /\ lastCall.op = "Write"
    /\ output # <<>>
    /\ ReadMeshInformationOf(WrittenFile, c, u)

NextRoundTrip ==
  \/ NextWrite
  \/ ReadBack

SpecRoundTrip == Init /\ [][NextRoundTrip]_vars

(***************************************************************************)
(* What the specification says of a file, stated on the bytes of the file  *)
(* and on the mesh handed to the writer.                                   *)
(***************************************************************************)
\* all bytes up to the first line terminator
FirstLine(c) ==
  IF \E i \in 1..Len(c) : c[i] = NL
  THEN SubSeq(c, 1, (CHOOSE i \in 1..Len(c) :
                       c[i] = NL /\ \A j \in 1..(i - 1) : c[j] # NL) - 1)
  ELSE c

HasSolid(line) ==
  \E i \in 1..(Len(line) - 4) : SubSeq(line, i, i + 4) = <<115, 111, 108, 105, 100>>

\* the bytes of the file the last read was pointed at
FileRead == Files[fileName]

AfterRead == lastCall.op = "ReadMeshInformation"

\* the ASCII files with one line that does not hold the keyword expected at
\* its place: a line replaced by "bad", or a line dropped so that the next
\* keyword line takes its place
DamagedFiles ==
  { f \in AsciiFileNames :
      /\ f.at >= 2
      /\ \/ f.edit \in {"bad", "blankbad"}
         \/ (f.edit = "drop" /\ f.at < 7 * f.n + 2) }

\* the 1-based number and the text of that line; in a file with a blank line
\* before the facet, either the line after the facet line (blank lines are
\* skipped) or the blank line itself
Offending(f) ==
  CASE f.edit = "blankbad" -> { <<f.at + 2, BadLine>>, <<f.at, <<>> >> }
    [] f.edit = "drop"     -> { <<f.at, WellFormedLines(f.n)[f.at + 1]>> }
    [] OTHER               -> { <<f.at, BadLine>> }

\* the triangle count a binary file declares in bytes 80..83
DeclaredCount(c) == BytesToInt32(SubSeq(c, HeaderSize + 1, HeaderSize + 4))

\* a binary file shorter than the layout it declares
Truncated(c) ==
  \/ Len(c) < HeaderSize + 4
  \/ DeclaredCount(c) < 0
  \/ (Len(c) - (HeaderSize + 4)) \div 50 < DeclaredCount(c)

\* the vertices of a well-formed file of k facets, in the order of the file
VerticesOf(k) == [i \in 1..(3 * k) |-> MeshTriangle(((i - 1) \div 3) + 1)[((i - 1) % 3) + 1]]

DistinctVertices(k) == { VerticesOf(k)[i] : i \in 1..(3 * k) }

\* the id of a vertex: the number of distinct vertices seen before it
FirstSeenId(k, p) ==
  LET first == CHOOSE i \in 1..(3 * k) :
                 VerticesOf(k)[i] = p /\ \A j \in 1..(i - 1) : VerticesOf(k)[j] # p
  IN  Cardinality({ VerticesOf(k)[j] : j \in 1..(first - 1) })

\* the cells handed to the writer, and those among them that qualify
CellsGiven == CHOOSE cells \in CellLists : CellsToBuffer(cells) = cellsBuffer

Qualifying ==
  { i \in 1..Len(CellsGiven) :
      \/ CellsGiven[i].type = TRIANGLE_CELL
      \/ (CellsGiven[i].type = POLYGON_CELL /\ Len(CellsGiven[i].ids) = 3) }

NQualifying == Cardinality(Qualifying)

(***************************************************************************)
(* The claims.                                                             *)
(***************************************************************************)
\* C1: ReadMeshInformation classifies the file by its first line only: when
\* the first line contains "solid" the file type is set to ASCII and the ASCII
\* parser runs, otherwise the file type is set to BINARY and the binary parser
\* runs, for every file and whatever file type was set before.
C1_ClassifiedByFirstLine ==
  (AfterRead /\ lastCall.parser # "none") =>
    IF HasSolid(FirstLine(FileRead))
    THEN m_FileType = "ASCII" /\ lastCall.parser = "ascii"
    ELSE m_FileType = "BINARY" /\ lastCall.parser = "binary"

\* C2: an ASCII read of a file with a line that does not hold the keyword
\* expected at its place fails with a parse error that reports the 1-based
\* number of that line and the text of that line.
C2_ParseErrorNamesLine ==
  (AfterRead /\ lastCall.parser = "ascii" /\ fileName \in DamagedFiles) =>
    /\ lastCall.exc.kind = "parse"
    /\ lastCall.exc.hasText
    /\ <<lastCall.exc.line, lastCall.exc.text>> \in Offending(fileName)

\* C3: when the file is classified BINARY the binary parser starts at offset
\* 0: the triangle count it takes is the one in bytes 80..83 of the file.
C3_BinaryParsedFromOffsetZero ==
  (AfterRead /\ lastCall.parser = "binary" /\ Len(FileRead) >= HeaderSize + 4) =>
    m_NumberOfCells = DeclaredCount(FileRead)

\* C4: a binary read of a file shorter than the layout it declares fails
\* with an error; it never completes as a success.
C4_TruncatedBinaryFails ==
  (AfterRead /\ lastCall.parser = "binary" /\ Truncated(FileRead)) =>
    lastCall.exc.kind # "none"

\* C5, as the specification states it: a binary write emits a header of
\* exactly 80 bytes and a body of exactly 12 + N*50 bytes, N the number of
\* qualifying cells.
C5_BodyIsTwelvePlusFiftyN ==
  (m_FileType = "BINARY" /\ writeStage = "cells") =>
    Len(output) = 80 + (12 + NQualifying * 50)

\* C5, amended: in a binary write on a stream that WriteMeshInformation
\* opened, the file holds exactly 80 bytes after WriteMeshInformation and
\* WritePoints, and after WriteCells the 80 bytes and a body of exactly
\* 4 + N*50 bytes; on a stream that a failed write sequence left open, the
\* open fails and the file holds no byte at any of these points.
C5_BodyIsFourPlusFiftyN ==
  m_FileType = "BINARY" =>
    /\ writeStage \in {"information", "points"} =>
         Len(output) = IF m_OutputStream.good THEN 80 ELSE 0
    /\ writeStage = "cells" =>
         Len(output) = IF m_OutputStream.good THEN 80 + (4 + NQualifying * 50)
                       ELSE 0

\* a binary write of a triangle or three-vertex polygon next to a cell that
\* does not qualify has completed WriteCells on a good stream
C5_Witness ==
  /\ m_FileType = "BINARY"
  /\ writeStage = "cells"
  /\ m_OutputStream.good
  /\ NQualifying = 1
  /\ Len(CellsGiven) = 2
  /\ \E i \in Qualifying : CellsGiven[i].type = POLYGON_CELL

\* C6: after WriteCells, the triangle count written in a binary file equals
\* the number of records written after it, and both equal the number of
\* qualifying cells; an ASCII file holds one facet block (seven lines) for
\* each qualifying cell and none for any other cell.
C6_CountEqualsRecordsEqualsQualifying ==
  writeStage = "cells" =>
    IF m_FileType = "BINARY"
    THEN /\ Len(output) >= HeaderSize + 4
         /\ DeclaredCount(output) = NQualifying
         /\ Len(output) = HeaderSize + 4 + 50 * NQualifying
    ELSE Cardinality({ i \in 1..Len(output) : output[i] = NL })
           = 7 * NQualifying + 2

\* C7: after a read of a well-formed ASCII file, every distinct vertex of the
\* file has an id in the point table, the ids are 0..k-1 in first-seen
\* order, and the table holds nothing else.
C7_PointIdsSequential ==
  (AfterRead /\ lastCall.parser = "ascii" /\ fileName.edit = "none") =>
    /\ DOMAIN m_PointsMap = DistinctVertices(fileName.n)
    /\ \A p \in DistinctVertices(fileName.n) :
         m_PointsMap[p] = FirstSeenId(fileName.n, p)

\* C8: after a successful read of an ASCII file of K facets the reader holds
\* one point table entry for each distinct vertex and K triangles whose ids
\* resolve to the vertices of the facet, and the point count and the cell
\* count are the number of distinct vertices and K.
C8_TablesAndCountsAfterAsciiRead ==
  (AfterRead /\ lastCall.parser = "ascii" /\ lastCall.exc.kind = "none"
     /\ fileName.edit = "none") =>
    /\ Cardinality(DOMAIN m_PointsMap) = Cardinality(DistinctVertices(fileName.n))
    /\ Len(m_CellsVector) = fileName.n
    /\ \A j \in 1..fileName.n : \A i \in 1..3 :
         /\ MeshTriangle(j)[i] \in DOMAIN m_PointsMap
         /\ m_PointsMap[MeshTriangle(j)[i]] = m_CellsVector[j][i]
    /\ m_NumberOfPoints = Cardinality(DistinctVertices(fileName.n))
    /\ m_NumberOfCells = fileName.n

\* C9: the input stream is closed whenever ReadMeshInformation has ended,
\* and the output stream is closed whenever no write sequence is under way.
C9_StreamsClosedOnEveryExit ==
  /\ AfterRead => ~m_InputStream.open
  /\ writeStage = "idle" => ~m_OutputStream.open

\* C10: WritePoints on a mesh whose point dimension is not 3 fails with the
\* dimension error, and the file holds no byte when it does.
C10_NoByteBeforeDimensionError ==
  (lastCall.op = "WritePoints" /\ m_PointDimension # 3
     /\ m_PointComponentType \in ComponentTypes) =>
    /\ lastCall.exc = DimensionError
    /\ output = <<>>

\* the coordinates of vertex i of cell j of the mesh handed to the writer
CellVertex(j, i) == MeshPoints[CellsGiven[j].ids[i] + 1]

\* the file read last is the one the write sequence before it left
AfterReadBack == lastCall.op = "ReadMeshInformation" /\ fileName = WrittenFile

\* C11: for a mesh all of whose cells are triangles, written as ASCII and
\* read back as ASCII, the read succeeds and the reader holds as many
\* triangles as the mesh has cells, exactly the distinct vertex coordinates
\* of the mesh's cells, and for each cell, in order, the ids of its three
\* vertices in the order of the cell.
C11_AsciiRoundTripPreservesMesh ==
  (AfterReadBack /\ lastCall.parser = "ascii"
     /\ Qualifying = 1..Len(CellsGiven)) =>
    /\ lastCall.exc.kind = "none"
    /\ Len(m_CellsVector) = Len(CellsGiven)
    /\ m_PointsSet = { CellVertex(j, i) : j \in 1..Len(CellsGiven), i \in 1..3 }
    /\ \A j \in 1..Len(CellsGiven) : \A i \in 1..3 :
         /\ CellVertex(j, i) \in DOMAIN m_PointsMap
         /\ m_PointsMap[CellVertex(j, i)] = m_CellsVector[j][i]

\* C12: the points and triangles an operation holds are those of that
\* operation alone: after a successful read of a well-formed ASCII file the
\* reader holds no point that is not a vertex of that file and no triangle
\* beyond its facets, and the points a write sequence uses are those of the
\* mesh its WritePoints call was handed.
C12_PointsDoNotOutliveOperation ==
  /\ (AfterRead /\ lastCall.parser = "ascii" /\ lastCall.exc.kind = "none"
        /\ fileName.edit = "none") =>
       /\ m_PointsSet \subseteq DistinctVertices(fileName.n)
       /\ DOMAIN m_PointsMap \subseteq DistinctVertices(fileName.n)
       /\ Len(m_CellsVector) <= fileName.n
  /\ writeStage \in {"points", "cells"} => m_Points = MeshPoints

\* whether the bytes of a file hold "endsolid" anywhere
HasEndSolid(c) ==
  \E i \in 1..(Len(c) - 7) :
    SubSeq(c, i, i + 7) = <<101, 110, 100, 115, 111, 108, 105, 100>>

\* C13: an ASCII read ends: either the facet loop reached a line holding
\* "endsolid" and the read returns normally, or it raises a parse error; a
\* file that ends without an "endsolid" line ends in a parse error.
C13_AsciiReadEndsAtEndSolidOrParseError ==
  (AfterRead /\ lastCall.parser = "ascii") =>
    /\ lastCall.exc.kind \in {"none", "parse"}
    /\ ~HasEndSolid(FileRead) => lastCall.exc.kind = "parse"

====
